---- MODULE Spec2Model ----
(***************************************************************************)
(* Model of app/routers/upload.py: the POST /upload/invoices handler       *)
(* upload_invoices and its dependency get_rag_pipeline, run by several     *)
(* concurrent requests against the process-wide session registry.          *)
(*                                                                         *)
(* One request is one task.  Its position (pc) is the orchestrator stage   *)
(* it has reached; every collaborator call is an own step, so the model    *)
(* admits every schedule of the stages of different requests (the handler  *)
(* itself yields only at `await file.read()`, so the schedules of the      *)
(* event loop are among them).                                             *)
(*                                                                         *)
(* The collaborators app.core.rag_pipeline, app.core.session_manager and   *)
(* app.core.config are modelled from their contracts in spec.md (sections  *)
(* 4.1 to 4.4 and 6).                                                      *)
(***************************************************************************)
EXTENDS Integers, Sequences, FiniteSets, TLC

\* ------------------------------------------------------------------ bounds
NumReqs == 2        \* concurrent upload requests
MaxFiles == 2       \* files per request

Reqs == 1..NumReqs

\* ------------------------------------------------------------- characters
\* File names are sequences of one-character strings, so that lower() and
\* endswith() are computed, not assumed.
UpperAlpha == <<"A", "B", "C", "J", "N", "O", "S", "V">>
LowerAlpha == <<"a", "b", "c", "j", "n", "o", "s", "v">>

\* str.lower() on one character
LowerChar(c) ==
    IF \E i \in 1..Len(UpperAlpha) : UpperAlpha[i] = c
    THEN LowerAlpha[CHOOSE i \in 1..Len(UpperAlpha) : UpperAlpha[i] = c]
    ELSE c

\* str.lower()
lower(s) == [i \in 1..Len(s) |-> LowerChar(s[i])]

\* str.endswith(suffix)
endswith(s, suffix) ==
    /\ Len(suffix) <= Len(s)
    /\ \A i \in 1..Len(suffix) : s[Len(s) - Len(suffix) + i] = suffix[i]

\* --------------------------------------------------------------- settings
\* settings.allowed_file_types: the extensions the endpoint accepts
allowed_file_types == << <<"j", "s", "o", "n">>, <<"c", "s", "v">> >>

\* settings.max_file_size, in bytes (scaled down)
max_file_size == 2

\* -------------------------------------------------------------- the inputs
\* An UploadFile: its name, whether read() succeeds, the length of its
\* content and the number of records a parser extracts from that content.
UploadFileSet ==
    { [filename |-> <<"a", ".", "c", "s", "v">>, readable |-> TRUE,
       size |-> 2, rows |-> 2],
      [filename |-> <<"B", ".", "J", "S", "O", "N">>, readable |-> TRUE,
       size |-> 0, rows |-> 0],
      [filename |-> <<"c", ".", "t", "x", "t">>, readable |-> TRUE,
       size |-> 1, rows |-> 1],
      [filename |-> <<"c", "s", "v">>, readable |-> TRUE,
       size |-> 1, rows |-> 1],
      [filename |-> <<"d", ".", "c", "s", "v">>, readable |-> TRUE,
       size |-> 3, rows |-> 1],
      [filename |-> <<"e", ".", "j", "s", "o", "n">>, readable |-> FALSE,
       size |-> 1, rows |-> 1] }

\* The file lists a request can carry: zero to MaxFiles files
FileLists == UNION { [1..n -> UploadFileSet] : n \in 0..MaxFiles }

\* The exception types a collaborator can raise; UnicodeDecodeError is a
\* subclass of ValueError, RuntimeError is not.
ErrTypes == {"ValueError", "UnicodeDecodeError", "RuntimeError"}

\* ------------------------------------------------------------------ values
\* Python's None, for a local that holds no object yet
NoneObj == [kind |-> "None"]

\* No exception
NoExc == [type |-> "None", at |-> "None", status_code |-> 0]

\* A response not sent yet
NoResponse ==
    [status |-> 0, session_id |-> 0, files_processed |-> 0, detail |-> "None"]

\* fastapi.HTTPException(status_code, detail), raised at `at`
HTTPException(status_code, detail, at) ==
    [type |-> "HTTPException", at |-> at, status_code |-> status_code,
     detail |-> detail]

\* An exception of type t raised by the collaborator call `at`
Raised(t, at) == [type |-> t, at |-> at, status_code |-> 0, detail |-> t]

\* isinstance(e, ValueError)
IsValueError(e) == e.type \in {"ValueError", "UnicodeDecodeError"}

\* The response FastAPI sends for an HTTPException leaving the handler
ErrorResponse(e) ==
    [status |-> e.status_code, session_id |-> 0, files_processed |-> 0,
     detail |-> e.detail]

\* ------------------------------------------------------ session identifiers
\* The identifiers create_session can generate: one more than the requests
\* can use up, so a fresh one always exists.
SessionIds == 1..(NumReqs + 1)

VARIABLES
    pc,               \* the stage each request has reached
    files,            \* the request's uploaded files (parameter `files`)
    rag_pipeline,     \* the request's pipeline (parameter `rag_pipeline`)
    processed_files,  \* local: the (filename, content) pairs read so far
    documents,        \* local: the loader's result
    vector_store,     \* local: the index built
    retriever,        \* local: vector_store.as_retriever(k = 3)
    agent,            \* local: the agent built
    session_id,       \* local: the id create_session returned
    response,         \* what the caller receives
    exc,              \* the exception that ended the request, if any
    calls,            \* per request, the collaborator calls made, in order
    sessions,         \* session_manager: session id -> (index, agent)
    created           \* the create_session calls made: caller, arguments, result

vars == <<pc, files, rag_pipeline, processed_files, documents, vector_store,
          retriever, agent, session_id, response, exc, calls, sessions,
          created>>

locals == <<processed_files, documents, vector_store, retriever, agent,
            session_id>>

\* ------------------------------------------------- the handler's decisions
\* Mutant of get_rag_pipeline: one pipeline instance cached for all requests
get_rag_pipeline_cached(r) == [kind |-> "InvoiceRAGPipeline", instance |-> 0]

\* get_rag_pipeline(): a new InvoiceRAGPipeline per request; the instance is
\* named by the request whose dependency resolution constructed it.
get_rag_pipeline(r) == [kind |-> "InvoiceRAGPipeline", instance |-> r]

\* Mutant of NoFiles: the check for an empty upload is missing
NoFiles_unchecked(fs) == FALSE

\* `not files`
NoFiles(fs) == Len(fs) = 0

\* Mutant of ExtensionAllowed: the extension check is missing
ExtensionAllowed_unchecked(filename) == TRUE

\* any(file.filename.lower().endswith(f".{ext}") for ext in allowed_file_types)
ExtensionAllowed(filename) ==
    \E i \in 1..Len(allowed_file_types) :
        endswith(lower(filename), <<".">> \o allowed_file_types[i])

\* await file.read(): the content read, a byte string of f.size bytes
ReadContent(f) == [size |-> f.size, rows |-> f.rows]

\* Mutant of TooLarge: the size check is missing
TooLarge_unchecked(content) == FALSE

\* len(content) > settings.max_file_size
TooLarge(content) == content.size > max_file_size

\* Mutant of InnerHandler: the generic handler reports an internal error
InnerHandler_500(e) == HTTPException(500, "Error reading file", e.at)

\* except Exception as e (around the read): raise HTTPException(400, ...)
InnerHandler(e) == HTTPException(400, "Error reading file", e.at)

\* Mutant of NoDocuments: the check for an empty load is missing
NoDocuments_unchecked(docs) == FALSE

\* `not documents`
NoDocuments(docs) == Len(docs) = 0

\* Mutant of OuterHandler: the ValueError clause is missing
OuterHandler_all500(e) == HTTPException(500, "Internal server error", e.at)

\* except ValueError -> HTTPException(400, str(e));
\* except Exception -> HTTPException(500, "Internal server error: ...")
OuterHandler(e) ==
    IF IsValueError(e)
    THEN HTTPException(400, e.detail, e.at)
    ELSE HTTPException(500, "Internal server error", e.at)

\* search_kwargs = {"k": 3}
retriever_k == 3

\* Mutant of SessionArgs: the vector store is kept in one place shared by the
\* requests, the agent is the request's own
SessionArgs_sharedStore(r) ==
    LET q == CHOOSE x \in Reqs : vector_store[x].kind = "VectorStore"
    IN  [vector_store |-> vector_store[q], agent |-> agent[r]]

\* Mutant of SessionArgs: the index and the agent are kept in one place shared
\* by the requests (the first built ones are the ones registered)
SessionArgs_shared(r) ==
    LET q == CHOOSE x \in Reqs : agent[x].kind = "Agent"
    IN  [vector_store |-> vector_store[q], agent |-> agent[q]]

\* The arguments of session_manager.create_session(vector_store, agent)
SessionArgs(r) == [vector_store |-> vector_store[r], agent |-> agent[r]]

\* Mutant of UploadResponse: files_processed counts only the files that
\* contributed a document
UploadResponse_contributing(sid, processed) ==
    [status |-> 200, session_id |-> sid,
     files_processed |->
         Cardinality({i \in 1..Len(processed) : processed[i][2].rows > 0}),
     detail |-> "Files uploaded and processed successfully"]

\* UploadResponse(session_id = session_id, message = ...,
\*                files_processed = len(processed_files)), sent with status 200
UploadResponse(sid, processed) ==
    [status |-> 200, session_id |-> sid, files_processed |-> Len(processed),
     detail |-> "Files uploaded and processed successfully"]

\* ------------------------------------------------------- the collaborators
\* Document Loader, one file: the extractor is chosen by extension; a file of
\* an unrecognized extension, or with no extractable record, yields nothing.
FileDocuments(filename, content) ==
    IF ExtensionAllowed(filename)
    THEN [i \in 1..content.rows |-> [source_filename |-> filename, row |-> i]]
    ELSE << >>

\* rag_pipeline.load_documents_from_files(processed_files)
RECURSIVE load_documents_from_files(_)
load_documents_from_files(processed) ==
    IF Len(processed) = 0
    THEN << >>
    ELSE FileDocuments(Head(processed)[1], Head(processed)[2])
             \o load_documents_from_files(Tail(processed))

\* rag_pipeline.create_vector_store(documents): a new index over the documents
create_vector_store(pipeline, docs) ==
    [kind |-> "VectorStore", pipeline |-> pipeline, documents |-> docs]

\* vector_store.as_retriever(search_kwargs = {"k": k})
as_retriever(store, k) == [kind |-> "Retriever", vector_store |-> store, k |-> k]

\* rag_pipeline.create_agent(retriever): a new agent bound to the retriever
create_agent(pipeline, ret) ==
    [kind |-> "Agent", pipeline |-> pipeline, retriever |-> ret]

\* Mutant of FreshIds: a generated identifier that already exists is used
FreshIds_colliding == SessionIds

\* session_manager: the identifiers create_session may return (a generated
\* identifier that already exists is regenerated)
FreshIds == SessionIds \ DOMAIN sessions

\* session_manager: the mapping after storing the pair under id
StoreSession(id, pair) ==
    [x \in DOMAIN sessions \cup {id} |-> IF x = id THEN pair ELSE sessions[x]]

\* session_manager.get_session(session_id)
get_session(id) == IF id \in DOMAIN sessions THEN sessions[id] ELSE NoneObj

\* ---------------------------------------------------------------- the state
Init ==
    /\ pc = [r \in Reqs |-> "Idle"]
    /\ files = [r \in Reqs |-> << >>]
    /\ rag_pipeline = [r \in Reqs |-> NoneObj]
    /\ processed_files = [r \in Reqs |-> << >>]
    /\ documents = [r \in Reqs |-> << >>]
    /\ vector_store = [r \in Reqs |-> NoneObj]
    /\ retriever = [r \in Reqs |-> NoneObj]
    /\ agent = [r \in Reqs |-> NoneObj]
    /\ session_id = [r \in Reqs |-> 0]
    /\ response = [r \in Reqs |-> NoResponse]
    /\ exc = [r \in Reqs |-> NoExc]
    /\ calls = [r \in Reqs |-> << >>]
    /\ sessions = << >>
    /\ created = {}

\* Mutant of Fail: the exception is swallowed and the request is never answered
Fail_unanswered(r, e, http) ==
    /\ pc' = pc
    /\ exc' = [exc EXCEPT ![r] = e]
    /\ response' = response

\* The request ends with the HTTPException http; e is the exception first raised
Fail(r, e, http) ==
    /\ pc' = [pc EXCEPT ![r] = "Failed"]
    /\ exc' = [exc EXCEPT ![r] = e]
    /\ response' = [response EXCEPT ![r] = ErrorResponse(http)]

\* The request records a call of the collaborator operation op
Call(r, ops) == calls' = [calls EXCEPT ![r] = @ \o ops]

\* -------------------------------------------------------------- the actions
\* A request arrives with the files fs; Depends(get_rag_pipeline) is resolved.
Receive(r, fs) ==
    /\ pc[r] = "Idle"
    /\ files' = [files EXCEPT ![r] = fs]
    /\ rag_pipeline' = [rag_pipeline EXCEPT ![r] = get_rag_pipeline(r)]
    /\ pc' = [pc EXCEPT ![r] = "Received"]
    /\ UNCHANGED <<locals, response, exc, calls, sessions, created>>

\* if not files: raise HTTPException(400); processed_files = []
CheckFiles(r) ==
    /\ pc[r] = "Received"
    /\ IF NoFiles(files[r])
       THEN LET e == HTTPException(400, "No files provided", "files")
            IN  Fail(r, e, e)
       ELSE /\ pc' = [pc EXCEPT ![r] =
                   IF Len(files[r]) = 0 THEN "Validated" ELSE "Validating"]
            /\ UNCHANGED <<response, exc>>
    /\ UNCHANGED <<files, rag_pipeline, locals, calls, sessions, created>>

\* One iteration of `for file in files`: extension check, read, size check,
\* append.  The loop ends with the last file.
ValidateFile(r) ==
    /\ pc[r] = "Validating"
    /\ LET file == files[r][Len(processed_files[r]) + 1]
           content == ReadContent(file)
           appended == Append(processed_files[r], <<file.filename, content>>)
       IN  IF ~ExtensionAllowed(file.filename)
           THEN LET e == HTTPException(400, "unsupported format", "extension")
                IN  /\ Fail(r, e, e)
                    /\ UNCHANGED <<processed_files, calls>>
           ELSE /\ Call(r, <<"read">>)
                /\ IF ~file.readable
                   THEN LET e == Raised("OSError", "read")
                        IN  /\ Fail(r, e, InnerHandler(e))
                            /\ UNCHANGED processed_files
                   ELSE IF TooLarge(content)
                   THEN LET e == HTTPException(400, "exceeds maximum size", "size")
                        IN  /\ Fail(r, e, InnerHandler(e))
                            /\ UNCHANGED processed_files
                   ELSE /\ processed_files' =
                               [processed_files EXCEPT ![r] = appended]
                        /\ pc' = [pc EXCEPT ![r] =
                               IF Len(appended) = Len(files[r])
                               THEN "Validated" ELSE "Validating"]
                        /\ UNCHANGED <<response, exc>>
    /\ UNCHANGED <<files, rag_pipeline, documents, vector_store, retriever,
                   agent, session_id, sessions, created>>

\* documents = rag_pipeline.load_documents_from_files(processed_files), and
\* if not documents: raise HTTPException(400), inside the outer try
LoadDocuments(r) ==
    /\ pc[r] = "Validated"
    /\ Call(r, <<"load_documents_from_files">>)
    /\ \/ LET docs == load_documents_from_files(processed_files[r])
          IN  /\ documents' = [documents EXCEPT ![r] = docs]
              /\ IF NoDocuments(docs)
                 THEN LET e == HTTPException(400, "No valid documents", "empty")
                      IN  Fail(r, e, OuterHandler(e))
                 ELSE /\ pc' = [pc EXCEPT ![r] = "Loaded"]
                      /\ UNCHANGED <<response, exc>>
       \/ \E t \in ErrTypes :
              LET e == Raised(t, "load_documents_from_files")
              IN  /\ Fail(r, e, OuterHandler(e))
                  /\ UNCHANGED documents
    /\ UNCHANGED <<files, rag_pipeline, processed_files, vector_store,
                   retriever, agent, session_id, sessions, created>>

\* vector_store = rag_pipeline.create_vector_store(documents);
\* retriever = vector_store.as_retriever(search_kwargs = {"k": 3})
BuildIndex(r) ==
    /\ pc[r] = "Loaded"
    /\ LET store == create_vector_store(rag_pipeline[r], documents[r])
       IN  \/ /\ Call(r, <<"create_vector_store", "as_retriever">>)
              /\ vector_store' = [vector_store EXCEPT ![r] = store]
              /\ retriever' =
                     [retriever EXCEPT ![r] = as_retriever(store, retriever_k)]
              /\ pc' = [pc EXCEPT ![r] = "Indexed"]
              /\ UNCHANGED <<response, exc>>
           \/ \E t \in ErrTypes :
                  LET e == Raised(t, "create_vector_store")
                  IN  /\ Call(r, <<"create_vector_store">>)
                      /\ Fail(r, e, OuterHandler(e))
                      /\ UNCHANGED <<vector_store, retriever>>
           \/ \E t \in ErrTypes :
                  LET e == Raised(t, "as_retriever")
                  IN  /\ Call(r, <<"create_vector_store", "as_retriever">>)
                      /\ vector_store' = [vector_store EXCEPT ![r] = store]
                      /\ Fail(r, e, OuterHandler(e))
                      /\ UNCHANGED retriever
    /\ UNCHANGED <<files, rag_pipeline, processed_files, documents, agent,
                   session_id, sessions, created>>

\* Mutant of BuildAgent: the session is registered while the agent is being
\* constructed, and completed afterwards
BuildAgent_registering(r) ==
    /\ pc[r] = "Indexed"
    /\ Call(r, <<"create_agent">>)
    /\ \E id \in FreshIds :
           sessions' = StoreSession(id,
               [vector_store |-> vector_store[r], agent |-> NoneObj])
    /\ \/ /\ agent' =
                 [agent EXCEPT ![r] = create_agent(rag_pipeline[r], retriever[r])]
          /\ pc' = [pc EXCEPT ![r] = "AgentBound"]
          /\ UNCHANGED <<response, exc>>
       \/ \E t \in ErrTypes :
              LET e == Raised(t, "create_agent")
              IN  /\ Fail(r, e, OuterHandler(e))
                  /\ UNCHANGED agent
    /\ UNCHANGED <<files, rag_pipeline, processed_files, documents,
                   vector_store, retriever, session_id, created>>

\* Mutant of BuildAgent: a failed agent construction is tried again
BuildAgent_retrying(r) ==
    /\ pc[r] = "Indexed"
    /\ Call(r, <<"create_agent">>)
    /\ \/ /\ agent' =
                 [agent EXCEPT ![r] = create_agent(rag_pipeline[r], retriever[r])]
          /\ pc' = [pc EXCEPT ![r] = "AgentBound"]
       \/ UNCHANGED <<agent, pc>>
    /\ UNCHANGED <<files, rag_pipeline, processed_files, documents,
                   vector_store, retriever, session_id, sessions, created,
                   response, exc>>

\* agent = rag_pipeline.create_agent(retriever)
BuildAgent(r) ==
    /\ pc[r] = "Indexed"
    /\ Call(r, <<"create_agent">>)
    /\ \/ /\ agent' =
                 [agent EXCEPT ![r] = create_agent(rag_pipeline[r], retriever[r])]
          /\ pc' = [pc EXCEPT ![r] = "AgentBound"]
          /\ UNCHANGED <<response, exc>>
       \/ \E t \in ErrTypes :
              LET e == Raised(t, "create_agent")
              IN  /\ Fail(r, e, OuterHandler(e))
                  /\ UNCHANGED agent
    /\ UNCHANGED <<files, rag_pipeline, processed_files, documents,
                   vector_store, retriever, session_id, sessions, created>>

\* session_id = session_manager.create_session(vector_store, agent);
\* return UploadResponse(...)
CreateSession(r) ==
    /\ pc[r] = "AgentBound"
    /\ Call(r, <<"create_session">>)
    /\ \E id \in FreshIds :
           /\ sessions' = StoreSession(id, SessionArgs(r))
           /\ created' = created \cup
                  {[by |-> r, id |-> id, pair |-> SessionArgs(r)]}
           /\ session_id' = [session_id EXCEPT ![r] = id]
           /\ response' = [response EXCEPT ![r] =
                  UploadResponse(id, processed_files[r])]
    /\ pc' = [pc EXCEPT ![r] = "SessionCreated"]
    /\ UNCHANGED <<files, rag_pipeline, processed_files, documents,
                   vector_store, retriever, agent, exc>>

Next ==
    \/ \E r \in Reqs : \E fs \in FileLists : Receive(r, fs)
    \/ \E r \in Reqs : CheckFiles(r)
    \/ \E r \in Reqs : ValidateFile(r)
    \/ \E r \in Reqs : LoadDocuments(r)
    \/ \E r \in Reqs : BuildIndex(r)
    \/ \E r \in Reqs : BuildAgent(r)
    \/ \E r \in Reqs : CreateSession(r)

Spec == Init /\ [][Next]_vars

\* The steps of the handler for the request r, once it was received
Handler(r) ==
    \/ CheckFiles(r)
    \/ ValidateFile(r)
    \/ LoadDocuments(r)
    \/ BuildIndex(r)
    \/ BuildAgent(r)
    \/ CreateSession(r)

\* Every collaborator call returns or raises and the event loop runs every
\* task that can run: a received request keeps taking its steps.
FairSpec == Spec /\ \A r \in Reqs : WF_vars(Handler(r))

\* ------------------------------------------------------- notions of the claims
\* The request r has called the collaborator operation op
Invoked(r, op) == \E i \in 1..Len(calls[r]) : calls[r][i] = op

\* In the request r, a call of a came before the call of b
Precedes(r, a, b) ==
    \E i, j \in 1..Len(calls[r]) : i < j /\ calls[r][i] = a /\ calls[r][j] = b

\* The create_session calls the request r has made
CreatedBy(r) == {c \in created : c.by = r}

\* The request r has ended in a failure: Failed state, an HTTP error sent
Ended(r) == pc[r] \in {"Failed", "SessionCreated"}
EndedInFailure(r) == pc[r] = "Failed" \/ response[r].status \in {400, 500}

\* C1: create_session is invoked only after the load returned a non-empty
\* sequence and the vector store and the agent were built; a request that
\* ended in a failure has registered no session; every session an observer
\* can see has an index and an agent.
C1_SessionOnlyWhenFullyBuilt ==
    /\ \A r \in Reqs : Invoked(r, "create_session") =>
           /\ Len(documents[r]) > 0
           /\ vector_store[r].kind = "VectorStore"
           /\ agent[r].kind = "Agent"
           /\ Precedes(r, "load_documents_from_files", "create_session")
           /\ Precedes(r, "create_vector_store", "create_session")
           /\ Precedes(r, "create_agent", "create_session")
    /\ \A c \in created : Len(c.pair.vector_store.documents) > 0
    /\ \A r \in Reqs : EndedInFailure(r) =>
           /\ CreatedBy(r) = {}
           /\ ~Invoked(r, "create_session")
           /\ \A id \in DOMAIN sessions :
                  sessions[id].vector_store.pipeline # rag_pipeline[r]
    /\ \A id \in DOMAIN sessions :
           /\ sessions[id].vector_store.kind = "VectorStore"
           /\ sessions[id].agent.kind = "Agent"

\* C1 witness: one request has registered its session while another has failed
\* after its index was built.
C1_Witness ==
    \E r, q \in Reqs :
        /\ pc[r] = "SessionCreated" /\ session_id[r] \in DOMAIN sessions
        /\ pc[q] = "Failed" /\ exc[q].at = "create_agent"

\* C2 (as claimed): when every file passed the checks and the loader returned
\* no document, the request fails with status 400.
C2_EmptyLoadIs400 ==
    \A r \in Reqs :
        (Invoked(r, "load_documents_from_files") /\ exc[r].at = "empty") =>
            response[r].status = 400

\* The collaborator calls that construct the index and the agent
ConstructionCalls == {"create_vector_store", "as_retriever", "create_agent"}

\* C3 (as claimed): every error raised by index or agent construction ends
\* the request with status 500, whatever its kind.
C3_ConstructionErrorIs500 ==
    \A r \in Reqs :
        exc[r].at \in ConstructionCalls => response[r].status = 500

\* C3 (amended): an error raised by index or agent construction ends the
\* request with status 400 when it is a ValueError (or of a subclass of it)
\* and with status 500 otherwise; no session is registered.
C3_ConstructionErrorStatus ==
    \A r \in Reqs :
        exc[r].at \in ConstructionCalls =>
            /\ pc[r] = "Failed"
            /\ response[r].status =
                   IF exc[r].type \in {"ValueError", "UnicodeDecodeError"}
                   THEN 400 ELSE 500
            /\ CreatedBy(r) = {}

\* C3 witness: index construction raised a ValueError in one request and agent
\* construction raised a RuntimeError in another.
C3_Witness ==
    \E r, q \in Reqs :
        /\ exc[r].at = "create_vector_store" /\ exc[r].type = "ValueError"
        /\ response[r].status = 400
        /\ exc[q].at = "create_agent" /\ exc[q].type = "RuntimeError"
        /\ response[q].status = 500

\* C4: the requests that reached session creation hold pairwise distinct
\* session ids, and every one of them resolves, via get_session, to the pair
\* that request registered: no insert is lost or overwritten.
C4_DistinctIdsNoLostInsert ==
    /\ \A r, q \in Reqs :
           (r # q /\ pc[r] = "SessionCreated" /\ pc[q] = "SessionCreated") =>
               response[r].session_id # response[q].session_id
    /\ \A r \in Reqs : pc[r] = "SessionCreated" =>
           /\ response[r].session_id \in DOMAIN sessions
           /\ \E c \in CreatedBy(r) :
                  /\ c.id = response[r].session_id
                  /\ get_session(c.id) = c.pair
    /\ Cardinality(DOMAIN sessions) =
           Cardinality({r \in Reqs : pc[r] = "SessionCreated"})

\* C4 witness: every request has reached session creation.
C4_Witness ==
    /\ \A r \in Reqs : pc[r] = "SessionCreated"
    /\ Cardinality(DOMAIN sessions) = NumReqs

\* C5: a step of an upload request never changes, replaces or removes a mapping
\* that exists; a step that fails a request leaves the registry unchanged; and
\* every id ever registered maps to the pair it was created with.
C5_RegistryFrame ==
    [][ /\ \A id \in DOMAIN sessions :
               id \in DOMAIN sessions' /\ sessions'[id] = sessions[id]
        /\ (\E r \in Reqs : pc[r] # "Failed" /\ pc'[r] = "Failed") =>
               sessions' = sessions
        /\ \A c \in created' :
               c.id \in DOMAIN sessions' /\ sessions'[c.id] = c.pair ]_vars

\* C5 witness: a session is registered, and another request has failed late.
C5_Witness ==
    \E r, q \in Reqs :
        /\ pc[r] = "SessionCreated"
        /\ sessions[session_id[r]] = SessionArgs(r)
        /\ pc[q] = "Failed" /\ exc[q].at \in ConstructionCalls

\* C6: no two sessions share an index or an agent; the pipelines, vector
\* stores and agents of two requests are different objects, and the agent of
\* a request reads the vector store of that request only.
C6_NoSharedInstances ==
    /\ \A i, j \in DOMAIN sessions : i # j =>
           /\ sessions[i].vector_store # sessions[j].vector_store
           /\ sessions[i].agent # sessions[j].agent
    /\ \A r, q \in Reqs : r # q =>
           /\ rag_pipeline[r] # NoneObj => rag_pipeline[r] # rag_pipeline[q]
           /\ vector_store[r] # NoneObj => vector_store[r] # vector_store[q]
           /\ retriever[r] # NoneObj => retriever[r] # retriever[q]
           /\ agent[r] # NoneObj => agent[r] # agent[q]
    /\ \A r \in Reqs :
           /\ retriever[r] # NoneObj =>
                  retriever[r].vector_store = vector_store[r]
           /\ agent[r] # NoneObj => agent[r].retriever = retriever[r]

\* C6 witness: two sessions are registered, built from the same uploaded files.
C6_Witness ==
    \E i, j \in DOMAIN sessions :
        /\ i # j
        /\ sessions[i].vector_store.documents =
               sessions[j].vector_store.documents

\* C7: on success the session id in the response is the one create_session
\* returned to this request, and it resolves to the vector store and the
\* agent this request built.
C7_ResponseIdResolvesToOwnPair ==
    \A r \in Reqs : response[r].status = 200 =>
        /\ \E c \in CreatedBy(r) : c.id = response[r].session_id
        /\ get_session(response[r].session_id) =
               [vector_store |-> vector_store[r], agent |-> agent[r]]
        /\ vector_store[r].pipeline = rag_pipeline[r]
        /\ agent[r].pipeline = rag_pipeline[r]

\* C7 witness: two requests have succeeded, each with its own session.
C7_Witness ==
    \E r, q \in Reqs :
        /\ r # q
        /\ response[r].status = 200 /\ response[q].status = 200
        /\ get_session(response[q].session_id).agent = agent[q]

\* The extension of a file name: what follows its last dot, in lower case
\* (nothing when it has no dot)
LastDot(name) ==
    IF \E i \in 1..Len(name) : name[i] = "."
    THEN CHOOSE i \in 1..Len(name) :
             name[i] = "." /\ \A j \in (i + 1)..Len(name) : name[j] # "."
    ELSE 0
Extension(name) ==
    IF LastDot(name) = 0 THEN << >>
    ELSE lower(SubSeq(name, LastDot(name) + 1, Len(name)))

\* The file has an extension the settings do not allow
Unsupported(file) ==
    \A i \in 1..Len(allowed_file_types) :
        Extension(file.filename) # allowed_file_types[i]

\* The file passes validation: allowed extension, readable, not too large
PassesValidation(file) ==
    ~Unsupported(file) /\ file.readable /\ file.size <= max_file_size

\* C8: a request with zero files fails with status 400 (no files provided)
\* before any file is read and before any collaborator is called.
C8_ZeroFilesRejectedFirst ==
    \A r \in Reqs :
        (pc[r] \notin {"Idle", "Received"} /\ Len(files[r]) = 0) =>
            /\ pc[r] = "Failed"
            /\ response[r].status = 400
            /\ response[r].detail = "No files provided"
            /\ calls[r] = << >>
            /\ CreatedBy(r) = {}

\* C8 witness: a request with zero files has been answered.
C8_Witness ==
    \E r \in Reqs :
        Len(files[r]) = 0 /\ pc[r] = "Failed" /\ exc[r].at = "files"

\* C9: a request whose files all have an unsupported extension fails with
\* status 400 and creates no session.
C9_AllUnsupportedRejected ==
    \A r \in Reqs :
        ( /\ pc[r] \notin {"Idle", "Received", "Validating"}
          /\ Len(files[r]) > 0
          /\ \A i \in 1..Len(files[r]) : Unsupported(files[r][i]) ) =>
            /\ pc[r] = "Failed"
            /\ response[r].status = 400
            /\ CreatedBy(r) = {}
            /\ \A id \in DOMAIN sessions :
                   sessions[id].vector_store.pipeline # rag_pipeline[r]

\* C9 witness: a batch of MaxFiles files, none with a supported extension,
\* has been rejected.
C9_Witness ==
    \E r \in Reqs :
        /\ Len(files[r]) = MaxFiles
        /\ \A i \in 1..Len(files[r]) : Unsupported(files[r][i])
        /\ pc[r] = "Failed" /\ response[r].status = 400

\* C10: a successful upload has created exactly one session, and its
\* files_processed is the number of files that passed validation, whether or
\* not they contributed a document.
C10_OneSessionFilesAttempted ==
    \A r \in Reqs : response[r].status = 200 =>
        /\ Cardinality(CreatedBy(r)) = 1
        /\ Cardinality({id \in DOMAIN sessions :
               sessions[id].vector_store.pipeline = rag_pipeline[r]}) = 1
        /\ response[r].files_processed =
               Cardinality({i \in 1..Len(files[r]) :
                                PassesValidation(files[r][i])})
        /\ response[r].files_processed = Len(files[r])

\* C10 witness: a successful upload of two files, one of which contributed no
\* document: files_processed is 2 and the documents come from one file.
C10_Witness ==
    \E r \in Reqs :
        /\ response[r].status = 200
        /\ response[r].files_processed = 2
        /\ \E i \in 1..Len(files[r]) : files[r][i].rows = 0
        /\ \A d \in 1..Len(documents[r]) :
               documents[r][d].source_filename = documents[r][1].source_filename

\* The orchestrator stage a position stands for, by its rank in the order
\* Received, Validated, Loaded, Indexed, AgentBound, SessionCreated; Failed is
\* ranked last and a request not received yet first.
StageRank(p) ==
    CASE p = "Idle" -> 0
      [] p \in {"Received", "Validating"} -> 1
      [] p = "Validated" -> 2
      [] p = "Loaded" -> 3
      [] p = "Indexed" -> 4
      [] p = "AgentBound" -> 5
      [] p = "SessionCreated" -> 6
      [] p = "Failed" -> 7

\* The number of calls of op in a call log
CallCount(log, op) == Cardinality({i \in 1..Len(log) : log[i] = op})

\* The collaborator operations of the stages after validation, in stage order
StageCalls ==
    <<"load_documents_from_files", "create_vector_store", "create_agent",
      "create_session">>

\* Everything the model holds of the request r
RequestState(r) ==
    <<pc[r], files[r], rag_pipeline[r], processed_files[r], documents[r],
      vector_store[r], retriever[r], agent[r], session_id[r], response[r],
      exc[r], calls[r]>>

\* C11: every step takes a request to the next stage of the order Received,
\* Validated, Loaded, Indexed, AgentBound, SessionCreated, or from a
\* non-terminal stage to Failed; no stage is skipped; the loader, the index
\* builder, the agent builder and create_session are each called at most once
\* per request, and exactly the ones of the stages passed were called; nothing
\* of a request changes once it is SessionCreated or Failed.
C11_StageOrder ==
    [][ \A r \in Reqs :
          LET s == StageRank(pc[r])
              t == StageRank(pc'[r])
          IN  /\ \/ t = s
                 \/ t = s + 1 /\ s <= 5
                 \/ t = 7 /\ s \in 1..5
              /\ s \in {6, 7} => RequestState(r)' = RequestState(r)
              /\ \A op \in ConstructionCalls \cup
                           {"load_documents_from_files", "create_session"} :
                     CallCount(calls'[r], op) <= 1
              /\ \A k \in 1..4 :
                     t \in (k + 2)..6 => CallCount(calls'[r], StageCalls[k]) = 1
              /\ \A k \in 1..4 :
                     (t <= k + 1 /\ t = s + 1) =>
                         CallCount(calls'[r], StageCalls[k]) = 0 ]_vars

\* C11 witness: one request went through all the stages, calling each
\* collaborator once, and another failed in the Indexed stage.
C11_Witness ==
    \E r, q \in Reqs :
        /\ pc[r] = "SessionCreated"
        /\ \A k \in 1..4 : CallCount(calls[r], StageCalls[k]) = 1
        /\ calls[r][Len(calls[r])] = "create_session"
        /\ pc[q] = "Failed" /\ CallCount(calls[q], "create_agent") = 1

\* The file fails the extension check or the size check
FailsACheck(file) == Unsupported(file) \/ file.size > max_file_size

\* C12: the loader is invoked only when every file of the batch passed the
\* extension check and the size check (and was read); a request with a file
\* that fails either check ends with status 400 without a call of the loader,
\* the index builder, the agent builder or create_session.
C12_LoaderOnlyAfterAllChecks ==
    \A r \in Reqs :
        /\ Invoked(r, "load_documents_from_files") =>
               /\ Len(processed_files[r]) = Len(files[r])
               /\ \A i \in 1..Len(files[r]) :
                      ~FailsACheck(files[r][i]) /\ PassesValidation(files[r][i])
        /\ ( /\ pc[r] \notin {"Idle", "Received", "Validating"}
             /\ \E i \in 1..Len(files[r]) : FailsACheck(files[r][i]) ) =>
               /\ pc[r] = "Failed"
               /\ response[r].status = 400
               /\ \A i \in 1..Len(calls[r]) : calls[r][i] = "read"
               /\ CreatedBy(r) = {}

\* C12 witness: a batch whose first file is valid and whose last file is too
\* large has been rejected after the first file was read.
C12_Witness ==
    \E r \in Reqs :
        /\ Len(files[r]) = MaxFiles
        /\ PassesValidation(files[r][1])
        /\ files[r][MaxFiles].size > max_file_size
        /\ pc[r] = "Failed" /\ response[r].status = 400
        /\ Len(processed_files[r]) >= 1

\* C13: create_vector_store is never invoked with an empty document sequence:
\* in a request that called it, the loader returned at least one document,
\* and the store built holds exactly the loader's documents.
C13_IndexNeverBuiltFromNothing ==
    \A r \in Reqs :
        /\ Invoked(r, "create_vector_store") =>
               /\ Precedes(r, "load_documents_from_files", "create_vector_store")
               /\ documents[r] = load_documents_from_files(processed_files[r])
               /\ Len(documents[r]) > 0
        /\ vector_store[r] # NoneObj =>
               /\ vector_store[r].documents = documents[r]
               /\ Len(vector_store[r].documents) > 0

\* C13 witness: one request has built its index while another, whose files
\* yielded no document, has ended without calling the index builder.
C13_Witness ==
    \E r, q \in Reqs :
        /\ Invoked(r, "create_vector_store") /\ vector_store[r] # NoneObj
        /\ exc[q].at = "empty" /\ ~Invoked(q, "create_vector_store")

\* The request r is in a long-running stage: its loader, index builder or
\* agent builder call is the next thing it does
InLongRunningStage(r) == pc[r] \in {"Validated", "Loaded", "Indexed"}

\* C14: the registry is accessed only by the create_session step of a request
\* whose loading, index construction and agent construction are complete, so
\* no step of a long-running stage holds or touches it; and a request ready
\* to create its session can do so whatever stage the other requests are in.
C14_RegistryOnlyInFinalStep ==
    /\ [][ (sessions' # sessions \/ created' # created) =>
               \E r \in Reqs :
                   /\ pc[r] = "AgentBound" /\ pc'[r] = "SessionCreated"
                   /\ \A op \in ConstructionCalls \cup
                                {"load_documents_from_files"} :
                          CallCount(calls[r], op) = 1
                   /\ CallCount(calls[r], "create_session") = 0
                   /\ \A q \in Reqs \ {r} :
                          RequestState(q)' = RequestState(q) ]_vars
    /\ [](\A r \in Reqs : pc[r] = "AgentBound" => ENABLED CreateSession(r))

\* C14 witness: a request has registered its session while another request is
\* in the middle of its long-running stages.
C14_Witness ==
    \E r, q \in Reqs :
        /\ pc[r] = "SessionCreated" /\ DOMAIN sessions = {session_id[r]}
        /\ pc[q] = "Indexed"

\* C15: provided every collaborator call returns or raises, a received request
\* eventually ends, SessionCreated or Failed; it ends in one outcome only (a
\* 200 response with its session after all the stage calls, or an error
\* response with an exception and no session) and keeps that outcome.
C15_EveryRequestEnds ==
    /\ \A r \in Reqs : (pc[r] # "Idle") ~> Ended(r)
    /\ [](\A r \in Reqs :
            /\ response[r].status = 200 <=> pc[r] = "SessionCreated"
            /\ response[r].status \in {400, 500} <=> pc[r] = "Failed"
            /\ response[r].status \in {0, 200, 400, 500}
            /\ pc[r] = "SessionCreated" =>
                   /\ exc[r] = NoExc
                   /\ Cardinality(CreatedBy(r)) = 1
                   /\ \A k \in 1..4 : CallCount(calls[r], StageCalls[k]) = 1
            /\ pc[r] = "Failed" => exc[r] # NoExc /\ CreatedBy(r) = {})
    /\ [][\A r \in Reqs : Ended(r) => pc'[r] = pc[r]]_vars

\* C15 witness: every request has ended, one SessionCreated and one Failed.
C15_Witness ==
    /\ \A r \in Reqs : Ended(r)
    /\ \E r, q \in Reqs : pc[r] = "SessionCreated" /\ pc[q] = "Failed"

\* The index of the first file of fs that does not pass validation (0 if all do)
FirstOffending(fs) ==
    IF \E i \in 1..Len(fs) : ~PassesValidation(fs[i])
    THEN CHOOSE i \in 1..Len(fs) :
             /\ ~PassesValidation(fs[i])
             /\ \A j \in 1..(i - 1) : PassesValidation(fs[j])
    ELSE 0

\* C16: a file that is too large and a failure of reading a file both end the
\* request with status 400, sent by the read block's generic handler (also
\* for the size error, an HTTPException raised inside that block); the
\* offending file is the last one read.
C16_ReadAndSizeErrorsAre400 ==
    \A r \in Reqs :
        LET k == FirstOffending(files[r])
        IN  /\ exc[r].at \in {"read", "size"} =>
                /\ pc[r] = "Failed"
                /\ response[r].status = 400
                /\ response[r].detail = "Error reading file"
                /\ exc[r].at = "size" => exc[r].type = "HTTPException"
                /\ k > 0
                /\ calls[r] = [i \in 1..k |-> "read"]
                /\ Len(processed_files[r]) = k - 1
            /\ ( /\ Ended(r) /\ k > 0
                 /\ ~Unsupported(files[r][k]) ) =>
                /\ exc[r].at =
                       IF files[r][k].readable THEN "size" ELSE "read"
                /\ response[r].status = 400

\* C16 witness: one request was rejected for a first file too large, with a
\* second file never read, and another for a file that could not be read.
C16_Witness ==
    \E r, q \in Reqs :
        /\ exc[r].at = "size" /\ Len(files[r]) = 2 /\ calls[r] = <<"read">>
        /\ response[r].status = 400
        /\ exc[q].at = "read" /\ response[q].status = 400

\* C17: in every registered session the agent was built from the retriever of
\* the vector store registered with it, and that store holds the documents
\* loaded from the files of the request that registered the session.
C17_AgentBoundToOwnIndex ==
    /\ \A id \in DOMAIN sessions :
           /\ sessions[id].agent.retriever.vector_store =
                  sessions[id].vector_store
           /\ sessions[id].agent.retriever.k = retriever_k
           /\ sessions[id].agent.pipeline = sessions[id].vector_store.pipeline
    /\ \A c \in created :
           /\ sessions[c.id].vector_store.pipeline = rag_pipeline[c.by]
           /\ sessions[c.id].vector_store.documents =
                  load_documents_from_files(processed_files[c.by])
           /\ \A d \in 1..Len(sessions[c.id].vector_store.documents) :
                  \E i \in 1..Len(files[c.by]) :
                      /\ files[c.by][i].filename =
                             sessions[c.id].vector_store.documents[d].source_filename
                      /\ files[c.by][i].rows >=
                             sessions[c.id].vector_store.documents[d].row

\* C17 witness: two sessions over different documents are registered, each
\* with its agent bound to its own vector store.
C17_Witness ==
    \E i, j \in DOMAIN sessions :
        /\ sessions[i].vector_store.documents #
               sessions[j].vector_store.documents
        /\ sessions[i].agent.retriever.vector_store = sessions[i].vector_store
        /\ sessions[j].agent.retriever.vector_store = sessions[j].vector_store

====
